---- MODULE Spec2Model ----
(***************************************************************************)
(* Stock-Price-Tracker: the incremental cache reconciliation engine of     *)
(* src/main.py (StockTracker.fetch_historical_data and the gap detector    *)
(* StockTracker.get_internal_missing_ranges).                              *)
(*                                                                         *)
(* Time is counted in whole days (pd.Timedelta(days=1) = 1).  A dataframe  *)
(* is a sequence of rows [Ticker, Date, Fetched].  Fetched stands for the  *)
(* OHLCV columns, which the reconciler carries along without reading them: *)
(* it is the number of the call that fetched the row (0 for a row cached   *)
(* by an earlier session), so a cached row and a newly fetched row of the  *)
(* same (Ticker, Date) can be told apart.  The reconciler's decisions read *)
(* Ticker and Date only.                                                   *)
(***************************************************************************)
EXTENDS Integers, Sequences, FiniteSets, TLC

\* ------------------------------------------------------------------ bounds
\* Requests of fetch_historical_data take their dates from 0..MaxDay.
MaxDay == 2
\* The gap detector is probed with dates from 0..MaxProbeDay.
MaxProbeDay == 7
\* Length of list_of_tickers.
MaxTickers == 2
\* Number of fetch_historical_data calls in one run.
MaxCalls == 2
\* The provider calls that may raise are among the first MaxDown of a call.
MaxDown == 2
\* Number of faults (provider calls that raise, a file that cannot be read or
\* written) within one call.
MaxFaults == 1
\* The freshness checker and the alert evaluator run on one of the five days
\* up to MaxToday (day 0 is a Monday: Friday 4 to Tuesday 8).
MaxToday == 8
\* The lookback days_range asked of the freshness checker is in 1..MaxN
\* (validated_look_back_value accepts up to MAX_LOOKBACK_DAYS, lines 1478-1486).
MaxN == 7
\* The rows cached by an earlier session are at most MaxAge days old.
MaxAge == 4
\* The fetch menu is given start dates up to MaxBack days before today.
MaxBack == 61
\* The fetch menu asks for its dates and interval at most MaxTries times.
MaxTries == 2
\* The window handed to the cumulative-returns transform has 1..MaxWindow rows.
MaxWindow == 3

\* --------------------------------------------------------- program constants
\* market_open_time and market_close_time, in minutes after midnight.
market_open_time == 570
market_close_time == 960
Tickers == {"A", "B"}
\* String order of the ticker symbols ("A" < "B"), as sort_values compares them.
TickerRank == [t \in Tickers |-> IF t = "A" THEN 1 ELSE 2]
\* The interval codes of INTERVAL_TO_TIMEDIFF that the model exercises, in days.
Intervals == {"1d", "5d"}
INTERVAL_TO_TIMEDIFF == [i \in Intervals |-> IF i = "1d" THEN 1 ELSE 5]

VARIABLES
    csv,             \* csv[interval]: the file data/historical_data_<interval>.csv
    MASTER_HISTORY,  \* the class attribute StockTracker.MASTER_HISTORY
    call,            \* what the last fetch_historical_data call was given and did
    ncalls,          \* number of fetch_historical_data calls so far
    probe,           \* one application of get_internal_missing_ranges
    now,             \* the clock: today (a day) and eastern_time (minutes of the day)
    nyse,            \* the exchange calendar: the session days up to today
    fresh,           \* what the last get_requested_range_dataframe call did
    alert,           \* what the last percentage_change_alert call did
    menu,            \* option 1 of main_menu: the dates and interval entered
    chart            \* one cumulative-returns transform of a window of closes

vars == <<csv, MASTER_HISTORY, call, ncalls, probe, now, nyse, fresh, alert, menu, chart>>

\* ------------------------------------------------------- dataframe helpers
Row(t, d, n) == [Ticker |-> t, Date |-> d, Fetched |-> n]

SameKey(r1, r2) == r1.Ticker = r2.Ticker /\ r1.Date = r2.Date

\* The (Ticker, Date) column pair of a dataframe, in row order, and as a set.
Keys(df) == [i \in 1..Len(df) |-> <<df[i].Ticker, df[i].Date>>]
KeySet(df) == {<<df[i].Ticker, df[i].Date>> : i \in 1..Len(df)}

\* Order of sort_values(by=["Ticker", "Date"]).
TickerDateLE(r1, r2) ==
    \/ TickerRank[r1.Ticker] < TickerRank[r2.Ticker]
    \/ r1.Ticker = r2.Ticker /\ r1.Date <= r2.Date

RECURSIVE InsertTickerDate(_, _)
InsertTickerDate(r, df) ==
    IF df = <<>> THEN <<r>>
    ELSE IF TickerDateLE(df[Len(df)], r) THEN Append(df, r)
    ELSE Append(InsertTickerDate(r, SubSeq(df, 1, Len(df) - 1)), df[Len(df)])

\* The sort left out: the rows stay in the order of the concat.
sort_values_skipped(df) == df

\* dataframe.sort_values(by=["Ticker", "Date"])
RECURSIVE sort_values(_)
sort_values(df) ==
    IF df = <<>> THEN <<>>
    ELSE InsertTickerDate(df[Len(df)], sort_values(SubSeq(df, 1, Len(df) - 1)))

RECURSIVE InsertDate(_, _)
InsertDate(r, df) ==
    IF df = <<>> THEN <<r>>
    ELSE IF df[Len(df)].Date <= r.Date THEN Append(df, r)
    ELSE Append(InsertDate(r, SubSeq(df, 1, Len(df) - 1)), df[Len(df)])

\* dataframe.sort_values(by="Date")
RECURSIVE sort_values_by_date(_)
sort_values_by_date(df) ==
    IF df = <<>> THEN <<>>
    ELSE InsertDate(df[Len(df)], sort_values_by_date(SubSeq(df, 1, Len(df) - 1)))

\* The de-duplication left out: every row is kept.
drop_duplicates_skipped(df) == df

\* dataframe.drop_duplicates(subset=["Date", "Ticker"]): pandas keeps the first
\* row of every (Date, Ticker) and drops the later ones.
RECURSIVE drop_duplicates(_)
drop_duplicates(df) ==
    IF df = <<>> THEN <<>>
    ELSE LET front == SubSeq(df, 1, Len(df) - 1)
             last  == df[Len(df)]
         IN  IF \E j \in 1..Len(front) : SameKey(front[j], last)
             THEN drop_duplicates(front)
             ELSE Append(drop_duplicates(front), last)

IsSorted(df) == \A i \in 1..Len(df) - 1 : TickerDateLE(df[i], df[i + 1])

NoDuplicates(df) ==
    \A i, j \in 1..Len(df) : SameKey(df[i], df[j]) => i = j

Dates(df) == {df[i].Date : i \in 1..Len(df)}

MinDate(df) == CHOOSE d \in Dates(df) : \A e \in Dates(df) : d <= e
MaxDate(df) == CHOOSE d \in Dates(df) : \A e \in Dates(df) : d >= e

\* ------------------------------------------------------------ gap detector
\* Case 3 with >= for >: a plausible slip that reports adjacent rows as a gap.
RECURSIVE InternalGapsNonStrict(_, _, _)
InternalGapsNonStrict(requested, i, step) ==
    IF i >= Len(requested) THEN <<>>
    ELSE LET current_date == requested[i].Date
             next_date    == requested[i + 1].Date
         IN  (IF next_date >= current_date + step
              THEN << <<current_date + step, next_date>> >>
              ELSE <<>>)
             \o InternalGapsNonStrict(requested, i + 1, step)

\* Case 3 of get_internal_missing_ranges: the loop over adjacent retained rows.
RECURSIVE InternalGaps(_, _, _)
InternalGaps(requested, i, step) ==
    IF i >= Len(requested) THEN <<>>
    ELSE LET current_date == requested[i].Date
             next_date    == requested[i + 1].Date
         IN  (IF next_date > current_date + step
              THEN << <<current_date + step, next_date>> >>
              ELSE <<>>)
             \o InternalGaps(requested, i + 1, step)

\* The leading gap appended after the loop instead of before it: a plausible
\* slip that returns the gaps out of order.
get_internal_missing_ranges_leading_last(dataframe, start, end, interval) ==
    LET step == INTERVAL_TO_TIMEDIFF[interval]
        requested == sort_values_by_date(
            SelectSeq(dataframe, LAMBDA r : r.Date >= start /\ r.Date <= end))
        first_row_date == requested[1].Date
        last_row_date  == requested[Len(requested)].Date
    IN  IF requested = <<>> THEN << <<start, end>> >>
        ELSE InternalGaps(requested, 1, step)
             \o (IF first_row_date > start
                 THEN << <<start, first_row_date>> >> ELSE <<>>)
             \o (IF last_row_date < end
                 THEN << <<last_row_date + step, end + step>> >> ELSE <<>>)

\* Lines 1061-1116.
get_internal_missing_ranges(dataframe, start, end, interval) ==
    LET step == INTERVAL_TO_TIMEDIFF[interval]
        requested == sort_values_by_date(
            SelectSeq(dataframe, LAMBDA r : r.Date >= start /\ r.Date <= end))
        first_row_date == requested[1].Date
        last_row_date  == requested[Len(requested)].Date
    IN  IF requested = <<>> THEN << <<start, end>> >>
        ELSE (IF first_row_date > start
              THEN << <<start, first_row_date>> >> ELSE <<>>)
             \o InternalGaps(requested, 1, step)
             \o (IF last_row_date < end
                 THEN << <<last_row_date + step, end + step>> >> ELSE <<>>)

\* --------------------------------------------------------------- provider
\* The instants at which a bar of the interval can exist (the step grid).
OnGrid(t, interval) == t % INTERVAL_TO_TIMEDIFF[interval] = 0

RECURSIVE BarsFrom(_, _, _, _, _)
BarsFrom(ticker, t, end, interval, n) ==
    IF t >= end THEN <<>>
    ELSE (IF OnGrid(t, interval) /\ t \in nyse THEN <<Row(ticker, t, n)>> ELSE <<>>)
         \o BarsFrom(ticker, t + 1, end, interval, n)

\* yf.Ticker(ticker).history(start, end, interval) of a provider that has a bar
\* at every grid instant of every session day up to today: the bars with
\* start <= Date < end, ascending, tagged with the ticker
\* (history["Ticker"] = ticker).
history(ticker, start, end, interval, n) ==
    BarsFrom(ticker, start, end, interval, n)

\* ------------------------------------------------------------- reconciler
\* The working state of one fetch_historical_data call: the dataframe
\* compiled_history and the provider calls issued so far.
Acc(compiled_history, fetches) ==
    [compiled_history |-> compiled_history, fetches |-> fetches]

\* A provider call whose exception is not contained: once a provider call of
\* the handler has raised, the later ones are not made.
FetchGivingUp(acc, ticker, start, end, interval, down) ==
    LET k      == Len(acc.fetches) + 1
        failed == k \in down
        rows   == IF failed THEN <<>>
                  ELSE history(ticker, start, end, interval, ncalls + 1)
    IN  IF \E j \in 1..Len(acc.fetches) : acc.fetches[j].failed
        THEN acc
        ELSE [compiled_history |-> acc.compiled_history \o rows,
              fetches |-> Append(acc.fetches,
                                 [Ticker |-> ticker, start |-> start, end |-> end,
                                  failed |-> failed])]

\* One provider call with its try/except and the concat of its rows: the k-th
\* provider call of the handler raises iff k is in down, and then contributes
\* the empty dataframe (lines 413-429, 438-454, 458-474, 480-496, 547-563).
Fetch(acc, ticker, start, end, interval, down) ==
    LET k      == Len(acc.fetches) + 1
        failed == k \in down
        rows   == IF failed THEN <<>>
                  ELSE history(ticker, start, end, interval, ncalls + 1)
    IN  Acc(acc.compiled_history \o rows,
            Append(acc.fetches, [Ticker |-> ticker, start |-> start, end |-> end,
                                 failed |-> failed]))

\* for gap_start, gap_end in internal_gaps: fetch and concat.
RECURSIVE FetchGaps(_, _, _, _, _, _)
FetchGaps(acc, ticker, internal_gaps, i, interval, down) ==
    IF i > Len(internal_gaps) THEN acc
    ELSE FetchGaps(Fetch(acc, ticker, internal_gaps[i][1], internal_gaps[i][2],
                         interval, down),
                   ticker, internal_gaps, i + 1, interval, down)

\* The body of "for ticker in present_tickers".
PresentTicker(acc, ticker, start, end, interval, down) ==
    LET ticker_specific_dataframe ==
            SelectSeq(acc.compiled_history, LAMBDA r : r.Ticker = ticker)
        internal_gaps ==
            get_internal_missing_ranges(ticker_specific_dataframe, start, end, interval)
        acc1 == FetchGaps(acc, ticker, internal_gaps, 1, interval, down)
        min  == MinDate(ticker_specific_dataframe)
        max  == MaxDate(ticker_specific_dataframe)
        acc2 == IF start < min /\ min < end
                THEN Fetch(acc1, ticker, start, min, interval, down) ELSE acc1
        acc3 == IF end > max /\ max > start
                THEN Fetch(acc2, ticker, max, end, interval, down) ELSE acc2
    IN  IF start >= min /\ end <= max THEN acc1 ELSE acc3

RECURSIVE PresentLoop(_, _, _, _, _, _, _)
PresentLoop(acc, present_tickers, i, start, end, interval, down) ==
    IF i > Len(present_tickers) THEN acc
    ELSE PresentLoop(PresentTicker(acc, present_tickers[i], start, end, interval, down),
                     present_tickers, i + 1, start, end, interval, down)

\* The full-range fetch padded by one step, as the trailing gap is.
RECURSIVE FullRangeLoopPadded(_, _, _, _, _, _, _)
FullRangeLoopPadded(acc, tickers, i, start, end, interval, down) ==
    IF i > Len(tickers) THEN acc
    ELSE FullRangeLoopPadded(
             Fetch(acc, tickers[i], start, end + INTERVAL_TO_TIMEDIFF[interval],
                   interval, down),
             tickers, i + 1, start, end, interval, down)

\* "for ticker in missing_tickers" and, when the file does not exist,
\* "for ticker in list_of_tickers": one provider call over (start, end) each.
RECURSIVE FullRangeLoop(_, _, _, _, _, _, _)
FullRangeLoop(acc, tickers, i, start, end, interval, down) ==
    IF i > Len(tickers) THEN acc
    ELSE FullRangeLoop(Fetch(acc, tickers[i], start, end, interval, down),
                       tickers, i + 1, start, end, interval, down)

\* The printed rows filtered by ticker only, the date range forgotten.
RECURSIVE combined_resulting_dataframe_any_date(_, _, _, _, _)
combined_resulting_dataframe_any_date(df, tickers, i, start, end) ==
    IF i > Len(tickers) THEN <<>>
    ELSE SelectSeq(df, LAMBDA r : r.Ticker = tickers[i])
         \o combined_resulting_dataframe_any_date(df, tickers, i + 1, start, end)

\* The rows the verbose branch prints when the file existed (lines 514-531):
\* per ticker of fully_checked_tickers, its rows with start <= Date <= end.
RECURSIVE combined_resulting_dataframe(_, _, _, _, _)
combined_resulting_dataframe(compiled_history, fully_checked_tickers, i, start, end) ==
    IF i > Len(fully_checked_tickers) THEN <<>>
    ELSE SelectSeq(compiled_history,
                   LAMBDA r : /\ r.Ticker = fully_checked_tickers[i]
                              /\ r.Date >= start
                              /\ r.Date <= end)
         \o combined_resulting_dataframe(compiled_history, fully_checked_tickers,
                                         i + 1, start, end)

\* A load that starts from an empty dataframe: the stored rows are not read.
load_from_csv_empty(interval) == <<>>

\* to_csv followed by read_csv keeps every row and its instant (the Date is
\* written with its UTC offset and read back with utc=True, then tz_convert).
load_from_csv(interval) == csv[interval].rows

File(rows) == [exists |-> TRUE, rows |-> rows]
NoFile == [exists |-> FALSE, rows |-> <<>>]

\* assigned: the assignment to StockTracker.MASTER_HISTORY (line 512 or 575)
\* was executed.
Result(outcome, file, master, assigned, fetches, printed) ==
    [outcome |-> outcome, file |-> file, master |-> master, assigned |-> assigned,
     fetches |-> fetches, printed |-> printed]

\* fetch_historical_data when Path(filename).exists() (lines 386-531).
\* disk = "unreadable": load_from_csv raises ParserError or PermissionError, the
\* except clause only prints, and the first use of compiled_history (line 400,
\* or line 502 for an empty ticker list) raises UnboundLocalError.
FileExistsBranch(list_of_tickers, start, end, interval, verbose, down, disk) ==
    LET loaded == sort_values(load_from_csv(interval))
        cached(t) == \E i \in 1..Len(loaded) : loaded[i].Ticker = t
        present_tickers == SelectSeq(list_of_tickers, LAMBDA t : cached(t))
        missing_tickers == SelectSeq(list_of_tickers, LAMBDA t : ~cached(t))
        acc1 == PresentLoop(Acc(loaded, <<>>), present_tickers, 1,
                            start, end, interval, down)
        acc2 == FullRangeLoop(acc1, missing_tickers, 1, start, end, interval, down)
        fully_checked_tickers == present_tickers \o missing_tickers
        compiled_history == sort_values(drop_duplicates(acc2.compiled_history))
    IN  IF disk = "unreadable"
        THEN Result("UnboundLocalError", csv[interval], MASTER_HISTORY, FALSE, <<>>, <<>>)
        ELSE Result("returned",
                    IF disk = "unwritable" THEN csv[interval] ELSE File(compiled_history),
                    IF interval = "1d" THEN File(compiled_history) ELSE MASTER_HISTORY,
                    interval = "1d",
                    acc2.fetches,
                    IF verbose
                    THEN combined_resulting_dataframe(compiled_history,
                             fully_checked_tickers, 1, start, end)
                    ELSE <<>>)

\* fetch_historical_data when the file does not exist (lines 532-578).
NoFileBranch(list_of_tickers, start, end, interval, verbose, down, disk) ==
    LET acc == FullRangeLoop(Acc(<<>>, <<>>), list_of_tickers, 1,
                             start, end, interval, down)
        compiled_history == sort_values(drop_duplicates(acc.compiled_history))
    IN  Result("returned",
               IF disk = "unwritable" THEN csv[interval] ELSE File(compiled_history),
               IF interval = "1d" THEN File(compiled_history) ELSE MASTER_HISTORY,
               interval = "1d",
               acc.fetches,
               IF verbose THEN compiled_history ELSE <<>>)

\* A reconciler that treats a store it cannot load as an empty dataset and
\* carries on: every ticker is fetched in full and the result is written.
fetch_historical_data_empty_on_load_failure(list_of_tickers, start, end, interval, verbose, down, disk) ==
    IF csv[interval].exists /\ disk # "unreadable"
    THEN FileExistsBranch(list_of_tickers, start, end, interval, verbose, down, disk)
    ELSE NoFileBranch(list_of_tickers, start, end, interval, verbose, down, disk)

\* A reconciler without the test of line 511: the master reference is set to
\* the dataset just written whatever the interval.
fetch_historical_data_master_any_interval(list_of_tickers, start, end, interval, verbose, down, disk) ==
    LET r == IF csv[interval].exists
             THEN FileExistsBranch(list_of_tickers, start, end, interval, verbose, down, disk)
             ELSE NoFileBranch(list_of_tickers, start, end, interval, verbose, down, disk)
    IN  IF r.outcome = "returned" /\ disk = "ok"
        THEN [r EXCEPT !.master = r.file, !.assigned = TRUE]
        ELSE r

\* A reconciler that saves the rows of the requested tickers only (the
\* dataframe it prints) in place of compiled_history.
fetch_historical_data_saving_requested(list_of_tickers, start, end, interval, verbose, down, disk) ==
    LET r == IF csv[interval].exists
             THEN FileExistsBranch(list_of_tickers, start, end, interval, verbose, down, disk)
             ELSE NoFileBranch(list_of_tickers, start, end, interval, verbose, down, disk)
        requested(row) == \E i \in 1..Len(list_of_tickers) : list_of_tickers[i] = row.Ticker
    IN  IF r.outcome = "returned" /\ disk = "ok"
        THEN [r EXCEPT !.file = File(SelectSeq(r.file.rows, requested))]
        ELSE r

fetch_historical_data(list_of_tickers, start, end, interval, verbose, down, disk) ==
    IF csv[interval].exists
    THEN FileExistsBranch(list_of_tickers, start, end, interval, verbose, down, disk)
    ELSE NoFileBranch(list_of_tickers, start, end, interval, verbose, down, disk)

\* ------------------------------------------------------ freshness checker
\* MAX_LOOKBACK_DAYS (line 43), scaled from 180 days to one week.
MAX_LOOKBACK_DAYS == 7

\* nyse.valid_days(start_date, end_date): the session days from start_date to
\* end_date, both included, ascending.
RECURSIVE valid_days(_, _)
valid_days(start_date, end_date) ==
    IF start_date > end_date THEN <<>>
    ELSE (IF start_date \in nyse THEN <<start_date>> ELSE <<>>)
         \o valid_days(start_date + 1, end_date)

\* today in trading_schedule.index.date
today_in_trading_schedule == now.today \in nyse

\* A freshness checker that takes the session for closed once it has opened.
MarketStateFromOpen == IF today_in_trading_schedule /\ now.eastern_time >= market_open_time THEN "post-close" ELSE IF today_in_trading_schedule THEN "pre-close" ELSE "non-session"

\* The branch taken at lines 1177 / 1211 / 1248 (and 1284 / 1293 / 1302).
MarketState ==
    IF today_in_trading_schedule /\ now.eastern_time >= market_close_time
    THEN "post-close"
    ELSE IF today_in_trading_schedule /\ now.eastern_time < market_close_time
         THEN "pre-close"
         ELSE "non-session"

\* A freshness checker that counts today as expected before the close too.
valid_days_end_date_today(state) == now.today

\* end_date of the valid_days call of the branch (lines 1183, 1217, 1254).
valid_days_end_date(state) ==
    IF state = "pre-close" THEN now.today - 1 ELSE now.today

\* A freshness checker that reconciles from the newest expected date only.
ReconcileStartNewest(valid_trading_days, days_range) == valid_trading_days[Len(valid_trading_days)]

\* list_of_valid_trading_days[-1], valid_trading_days[-days_range]: the start
\* argument of the reconcile call.
ReconcileStart(valid_trading_days, days_range) ==
    valid_trading_days[Len(valid_trading_days) - days_range + 1]

\* An end argument taken for inclusive: the newest date wanted itself.
ReconcileEndInclusive(state, valid_trading_days) == IF state = "post-close" THEN now.today ELSE valid_trading_days[Len(valid_trading_days)]

\* The end argument of the reconcile call (lines 1208, 1245, 1279).
ReconcileEnd(state, valid_trading_days) ==
    IF state = "post-close" THEN now.today + 1
    ELSE IF state = "pre-close" THEN now.today
         ELSE valid_trading_days[Len(valid_trading_days)] + 1

\* A freshness checker that reconciles whatever the comparison says.
DataNeverMatches(list_of_valid_trading_days, list_of_actual_trading_days) == FALSE

\* list_of_valid_trading_days == list_of_actual_trading_days
DataMatches(list_of_valid_trading_days, list_of_actual_trading_days) ==
    list_of_valid_trading_days = list_of_actual_trading_days

\* MASTER_HISTORY[MASTER_HISTORY["Ticker"] == ticker]
ticker_specific_dataframe(df, ticker) == SelectSeq(df, LAMBDA r : r.Ticker = ticker)

\* DataFrame.tail(n)
tail(df, n) ==
    IF n >= Len(df) THEN df ELSE SubSeq(df, Len(df) - n + 1, Len(df))

\* The n last entries of a sequence, the last one first ([-1 - i] for i in range(n)).
LastFirst(seq, n) == [i \in 1..n |-> seq[Len(seq) + 1 - i]]

NoReconcile ==
    Result("none", csv["1d"], MASTER_HISTORY, FALSE, <<>>, <<>>)

FreshResult(outcome, state, cached, days_range, valid_trading_days, expected, actual, reconciles, r) ==
    [outcome |-> outcome, state |-> state, cached |-> cached,
     days_range |-> days_range, valid_trading_days |-> valid_trading_days,
     list_of_valid_trading_days |-> expected,
     list_of_actual_trading_days |-> actual,
     reconciles |-> reconciles, r |-> r,
     window |-> IF outcome = "returned"
                THEN tail(ticker_specific_dataframe(r.master.rows, r.ticker), days_range)
                ELSE <<>>]

\* get_requested_range_dataframe(ticker, days_range), lines 1154-1310.  Its
\* reconcile call is not verbose.  MASTER_HISTORY = None raises TypeError at
\* line 1168; an index beyond valid_trading_days raises IndexError (lines
\* 1187, 1222, 1260, 1290, 1299, 1308) before any reconcile call.
get_requested_range_dataframe(ticker, requested, down, disk) ==
    LET state == MarketState
        master == MASTER_HISTORY.rows
        cached == \E i \in 1..Len(master) : master[i].Ticker = ticker
        tsd == ticker_specific_dataframe(master, ticker)
        days_range == IF cached /\ Len(tsd) < requested THEN Len(tsd) ELSE requested
        valid_trading_days ==
            valid_days(now.today - MAX_LOOKBACK_DAYS, valid_days_end_date(state))
        expected == LastFirst(valid_trading_days, days_range)
        actual == [i \in 1..days_range |-> tsd[Len(tsd) + 1 - i].Date]
        start == ReconcileStart(valid_trading_days, days_range)
        end == ReconcileEnd(state, valid_trading_days)
        request == [list_of_tickers |-> <<ticker>>, start |-> start, end |-> end,
                    interval |-> "1d"]
        r == fetch_historical_data(<<ticker>>, start, end, "1d", FALSE, down, disk)
        none == NoReconcile @@ [ticker |-> ticker]
    IN  IF ~MASTER_HISTORY.exists
        THEN FreshResult("TypeError", state, FALSE, requested, <<>>, <<>>, <<>>, <<>>, none)
        ELSE IF days_range > Len(valid_trading_days)
        THEN FreshResult("IndexError", state, cached, days_range, valid_trading_days,
                         <<>>, <<>>, <<>>, none)
        ELSE IF cached /\ DataMatches(expected, actual)
        THEN FreshResult("returned", state, cached, days_range, valid_trading_days,
                         expected, actual, <<>>, none)
        ELSE FreshResult(r.outcome, state, cached, days_range, valid_trading_days,
                         IF cached THEN expected ELSE <<>>,
                         IF cached THEN actual ELSE <<>>,
                         <<request>>, r @@ [ticker |-> ticker])

\* -------------------------------------------------------- alert evaluator
\* The closes the provider quotes, chosen so that the percentage changes
\* (+25, -20, 0) are computed without rounding, and the thresholds on and off
\* those changes (the menu accepts 0 to 500, line 292).
Closes == {4, 5}
Thresholds == {0, 20, 25}

\* yf.Ticker(ticker).history(period="2d"): it raises, or it answers with no,
\* one or two closes.
Quotes ==
    {[raised |-> TRUE, Close |-> <<>>]}
        \cup {[raised |-> FALSE, Close |-> c] : c \in UNION {[1..n -> Closes] : n \in 0..2}}

\* A classification that counts a change equal to the threshold as an alert.
ClassifyInclusive(last_close, prev_close, alert_threshold) == IF (last_close - prev_close) * 100 >= alert_threshold * prev_close THEN "rose" ELSE IF (last_close - prev_close) * 100 <= (0 - alert_threshold) * prev_close THEN "dropped" ELSE "neutral"

\* Lines 913-920.  percentage_change = ((last_close - prev_close) / prev_close)
\* * 100 is compared with the threshold; prev_close is positive, so both sides
\* are multiplied by it.
Classify(last_close, prev_close, alert_threshold) ==
    IF (last_close - prev_close) * 100 > alert_threshold * prev_close
    THEN "rose"
    ELSE IF (last_close - prev_close) * 100 < (0 - alert_threshold) * prev_close
         THEN "dropped"
         ELSE "neutral"

Line(kind, ticker) == [kind |-> kind, ticker |-> ticker]

\* A loop that gives up at the first ticker it cannot evaluate.
RECURSIVE TickerLoopStopping(_, _, _, _)
TickerLoopStopping(list_of_tickers, quotes, i, alert_threshold) ==
    IF i > Len(list_of_tickers) \/ quotes[i].raised \/ Len(quotes[i].Close) < 2
    THEN <<>>
    ELSE <<Line(Classify(quotes[i].Close[Len(quotes[i].Close)],
                         quotes[i].Close[Len(quotes[i].Close) - 1],
                         alert_threshold), list_of_tickers[i])>>
         \o TickerLoopStopping(list_of_tickers, quotes, i + 1, alert_threshold)

\* The loop of lines 896-924 from the i-th ticker on: the strings appended.
RECURSIVE TickerLoop(_, _, _, _)
TickerLoop(list_of_tickers, quotes, i, alert_threshold) ==
    IF i > Len(list_of_tickers) THEN <<>>
    ELSE IF quotes[i].raised \/ Len(quotes[i].Close) < 2
    THEN TickerLoop(list_of_tickers, quotes, i + 1, alert_threshold)
    ELSE <<Line(Classify(quotes[i].Close[Len(quotes[i].Close)],
                         quotes[i].Close[Len(quotes[i].Close) - 1],
                         alert_threshold), list_of_tickers[i])>>
         \o TickerLoop(list_of_tickers, quotes, i + 1, alert_threshold)

\* An evaluator for which the close itself is still before the close.
AlertShapeAfterClose == IF today_in_trading_schedule /\ now.eastern_time > market_close_time THEN "alerts" ELSE IF today_in_trading_schedule /\ now.eastern_time < market_open_time THEN "not yet open" ELSE IF today_in_trading_schedule THEN "open" ELSE "closed"

\* An evaluator whose first test leaves out the instant of the close, which
\* then matches no branch.
AlertShapeCloseUnmatched == IF today_in_trading_schedule /\ now.eastern_time > market_close_time THEN "alerts" ELSE IF today_in_trading_schedule /\ now.eastern_time < market_open_time THEN "not yet open" ELSE IF today_in_trading_schedule /\ now.eastern_time < market_close_time THEN "open" ELSE IF ~today_in_trading_schedule THEN "closed" ELSE "none"

\* The branch taken at lines 895 / 930 / 935 / 940; "none" when no branch is
\* taken and body stays unbound.
AlertShape ==
    IF today_in_trading_schedule /\ now.eastern_time >= market_close_time
    THEN "alerts"
    ELSE IF today_in_trading_schedule /\ now.eastern_time < market_open_time
    THEN "not yet open"
    ELSE IF /\ today_in_trading_schedule
            /\ market_open_time <= now.eastern_time
            /\ now.eastern_time < market_close_time
    THEN "open"
    ELSE IF ~today_in_trading_schedule
    THEN "closed"
    ELSE "none"

\* percentage_change_alert (lines 882-947); quotes[i] is the provider's answer
\* for the i-th ticker, should it be asked.
percentage_change_alert(list_of_tickers, alert_threshold, quotes) ==
    LET shape == AlertShape
        evaluated == TickerLoop(list_of_tickers, quotes, 1, alert_threshold)
        strings == IF shape = "alerts"
                   THEN IF evaluated = <<>>
                        THEN <<Line("no valid alerts", "")>>
                        ELSE evaluated
                   ELSE IF shape = "none" THEN <<>> ELSE <<Line(shape, "")>>
    IN  [outcome |-> IF shape = "none" THEN "UnboundLocalError" ELSE "returned",
         shape |-> shape,
         list_of_tickers |-> list_of_tickers,
         alert_threshold |-> alert_threshold,
         asked |-> IF shape = "alerts"
                   THEN [i \in 1..Len(list_of_tickers) |->
                            [ticker |-> list_of_tickers[i], quote |-> quotes[i]]]
                   ELSE <<>>,
         strings |-> strings,
         emails |-> IF shape = "none" THEN <<>>
                    ELSE <<[subject |-> now.today,
                            heading |-> shape = "alerts", body |-> strings]>>]

\* ---------------------------------------------------------------- actions
\* The ticker lists the menu can build (lines 103-112): one symbol or more, in
\* any order, the same symbol more than once included.
TickerLists == UNION {[1..n -> Tickers] : n \in 1..MaxTickers}

NoCall ==
    [list_of_tickers |-> <<>>, start |-> 0, end |-> 0, interval |-> "1d",
     file_existed |-> FALSE, disk |-> "ok", outcome |-> "none",
     before |-> <<>>, master_assigned |-> FALSE, fetches |-> <<>>, printed |-> <<>>]

\* The reconciler and the gap detector on their own run on a calendar with a
\* session on every day and a clock past every day they can ask for.
Horizon == MaxDay + MaxProbeDay + 5

NoFresh ==
    [outcome |-> "none", ticker |-> "A", requested |-> 0, state |-> "none",
     cached |-> FALSE, days_range |-> 0, valid_trading_days |-> <<>>,
     list_of_valid_trading_days |-> <<>>, list_of_actual_trading_days |-> <<>>,
     reconciles |-> <<>>, window |-> <<>>]

NoAlert ==
    [outcome |-> "none", shape |-> "none", list_of_tickers |-> <<>>,
     alert_threshold |-> 0, asked |-> <<>>, strings |-> <<>>, emails |-> <<>>]

NoMenu ==
    [pc |-> "off", start |-> 0, end |-> 0, interval |-> "1d", tries |-> 0,
     passed |-> <<>>]

NoChart ==
    [pc |-> "off", Close |-> <<>>, investment_amount |-> 0,
     daily_change |-> <<>>, cumulative |-> <<>>]

NoProbe ==
    [pc |-> "off", dataframe |-> <<>>, start |-> 0, end |-> 0, interval |-> "1d",
     gaps |-> <<>>, merged |-> <<>>, regaps |-> <<>>]

\* The daily file an earlier session left behind: none, or the bars of ticker
\* "A" for a set of days (each such file is what earlier calls over suitable
\* ranges write).  __init__ loads it into MASTER_HISTORY (lines 68-70).
RECURSIVE CachedSeries(_, _)
CachedSeries(S, t) ==
    IF t > MaxToday THEN <<>>
    ELSE (IF t \in S THEN <<Row("A", t, 0)>> ELSE <<>>) \o CachedSeries(S, t + 1)

CachedFiles == {NoFile} \cup {File(CachedSeries(S, 0)) : S \in SUBSET (0..MaxDay)}

Init ==
    /\ \E daily \in CachedFiles :
          /\ csv = [i \in Intervals |-> IF i = "1d" THEN daily ELSE NoFile]
          /\ MASTER_HISTORY = daily
    /\ call = NoCall
    /\ ncalls = 0
    /\ probe = NoProbe
    /\ now = [today |-> Horizon, eastern_time |-> market_close_time]
    /\ nyse = 0..Horizon
    /\ fresh = NoFresh
    /\ alert = NoAlert
    /\ menu = NoMenu
    /\ chart = NoChart

\* Menu option 1 (line 148): one whole fetch_historical_data call, verbose.
FetchHistoricalData ==
    /\ ncalls < MaxCalls
    /\ \E list_of_tickers \in TickerLists, interval \in Intervals,
          start \in 0..MaxDay, end \in 0..MaxDay,
          down \in SUBSET (1..MaxDown), disk \in {"ok", "unreadable", "unwritable"} :
          /\ start < end
          /\ Cardinality(down) + (IF disk = "ok" THEN 0 ELSE 1) <= MaxFaults
          /\ disk = "unreadable" => csv[interval].exists
          /\ LET r == fetch_historical_data(list_of_tickers, start, end, interval,
                                            TRUE, down, disk)
             IN  /\ csv' = [csv EXCEPT ![interval] = r.file]
                 /\ MASTER_HISTORY' = r.master
                 /\ call' = [list_of_tickers |-> list_of_tickers, start |-> start,
                             end |-> end, interval |-> interval,
                             file_existed |-> csv[interval].exists, disk |-> disk,
                             outcome |-> r.outcome,
                             before |-> csv[interval].rows,
                             master_assigned |-> r.assigned,
                             fetches |-> r.fetches, printed |-> r.printed]
    /\ ncalls' = ncalls + 1
    /\ UNCHANGED <<probe, now, nyse, fresh, alert, menu, chart>>

Next == FetchHistoricalData

Spec == Init /\ [][Next]_vars

\* ------------------------------------------ the gap detector on its own
\* A sorted single-ticker series with a bar at every date of S.
RECURSIVE SeriesFrom(_, _)
SeriesFrom(S, t) ==
    IF t > MaxProbeDay THEN <<>>
    ELSE (IF t \in S THEN <<Row("A", t, 0)>> ELSE <<>>) \o SeriesFrom(S, t + 1)

ProbeInit ==
    /\ csv = [i \in Intervals |-> NoFile]
    /\ MASTER_HISTORY = NoFile
    /\ call = NoCall
    /\ ncalls = 0
    /\ now = [today |-> Horizon, eastern_time |-> market_close_time]
    /\ nyse = 0..Horizon
    /\ fresh = NoFresh
    /\ alert = NoAlert
    /\ menu = NoMenu
    /\ chart = NoChart
    /\ \E interval \in Intervals, start \in 0..MaxProbeDay, end \in 0..MaxProbeDay :
        \E S \in SUBSET {t \in 0..MaxProbeDay : OnGrid(t, interval)} :
          /\ start < end
          /\ probe = [pc |-> "input", dataframe |-> SeriesFrom(S, 0),
                      start |-> start, end |-> end, interval |-> interval,
                      gaps |-> <<>>, merged |-> <<>>, regaps |-> <<>>]

\* get_internal_missing_ranges applied to the drawn series and range.
Detect ==
    /\ probe.pc = "input"
    /\ probe' = [probe EXCEPT
                     !.pc = "detected",
                     !.gaps = get_internal_missing_ranges(probe.dataframe, probe.start,
                                                          probe.end, probe.interval)]
    /\ UNCHANGED <<csv, MASTER_HISTORY, call, ncalls, now, nyse, fresh, alert, menu, chart>>

\* Lines 412-429 and 502-503 for the detected gaps with no provider call
\* raising, then the detector again on the merged series.
Refill ==
    /\ probe.pc = "detected"
    /\ LET acc == FetchGaps(Acc(probe.dataframe, <<>>), "A", probe.gaps, 1,
                            probe.interval, {})
           merged == sort_values(drop_duplicates(acc.compiled_history))
       IN  probe' = [probe EXCEPT
                        !.pc = "refilled",
                        !.merged = merged,
                        !.regaps = get_internal_missing_ranges(merged, probe.start,
                                                               probe.end, probe.interval)]
    /\ UNCHANGED <<csv, MASTER_HISTORY, call, ncalls, now, nyse, fresh, alert, menu, chart>>

ProbeNext == Detect \/ Refill

GapSpec == ProbeInit /\ [][ProbeNext]_vars

\* ------------------------------------- the freshness checker on a calendar
\* The exchange calendar from MAX_LOOKBACK_DAYS before day 0 up to today: no
\* session on day 5 and day 6 of a week.
Sessions(today) == {d \in (0 - MAX_LOOKBACK_DAYS)..today : d % 7 \notin {5, 6}}

\* The instants the clock is read at: either side of the open and of the close.
ClockTimes ==
    {market_open_time - 1, market_open_time, market_close_time - 1, market_close_time}

Clocks == [today : (MaxToday - 4)..MaxToday, eastern_time : ClockTimes]

\* The daily file exists and was loaded by __init__ (the menu asks for the file
\* before it calls the analysis, line 165): the bars of ticker "A" for a set of
\* recent session days.
FreshInit ==
    /\ \E clock \in Clocks :
          /\ now = clock
          /\ nyse = Sessions(clock.today)
          /\ \E S \in SUBSET {d \in Sessions(clock.today) : d >= clock.today - MaxAge} :
                /\ csv = [i \in Intervals |->
                             IF i = "1d" THEN File(CachedSeries(S, 0)) ELSE NoFile]
                /\ MASTER_HISTORY = File(CachedSeries(S, 0))
    /\ call = NoCall
    /\ ncalls = 0
    /\ probe = NoProbe
    /\ fresh = NoFresh
    /\ alert = NoAlert
    /\ menu = NoMenu
    /\ chart = NoChart

\* Menu options 3 and 4 (lines 165-169, 618): one whole
\* get_requested_range_dataframe call, its reconcile call included.
GetRequestedRangeDataframe ==
    /\ ncalls < MaxCalls
    /\ csv["1d"].exists
    /\ \E ticker \in Tickers, days_range \in 1..MaxN,
          down \in SUBSET (1..MaxDown), disk \in {"ok", "unreadable", "unwritable"} :
          /\ Cardinality(down) + (IF disk = "ok" THEN 0 ELSE 1) <= MaxFaults
          /\ \E f \in {get_requested_range_dataframe(ticker, days_range, down, disk)} :
             LET called == f.reconciles # <<>>
             IN  /\ fresh' = [outcome |-> f.outcome, ticker |-> ticker,
                              requested |-> days_range, state |-> f.state,
                              cached |-> f.cached, days_range |-> f.days_range,
                              valid_trading_days |-> f.valid_trading_days,
                              list_of_valid_trading_days |-> f.list_of_valid_trading_days,
                              list_of_actual_trading_days |-> f.list_of_actual_trading_days,
                              reconciles |-> f.reconciles, window |-> f.window]
                 /\ csv' = [csv EXCEPT !["1d"] = f.r.file]
                 /\ MASTER_HISTORY' = f.r.master
                 /\ ncalls' = IF called THEN ncalls + 1 ELSE ncalls
                 /\ call' = IF called
                            THEN [list_of_tickers |-> <<ticker>>,
                                  start |-> f.reconciles[1].start,
                                  end |-> f.reconciles[1].end, interval |-> "1d",
                                  file_existed |-> csv["1d"].exists, disk |-> disk,
                                  outcome |-> f.r.outcome, before |-> csv["1d"].rows,
                                  master_assigned |-> f.r.assigned,
                                  fetches |-> f.r.fetches, printed |-> f.r.printed]
                            ELSE call
    /\ UNCHANGED <<probe, now, nyse, alert, menu, chart>>

FreshNext == GetRequestedRangeDataframe

FreshSpec == FreshInit /\ [][FreshNext]_vars

\* ------------------------------------------------- claims: gap detector
Detected == probe.pc \in {"detected", "refilled"}

\* The retained rows of the probe: its bars with start <= Date <= end.
Retained == {d \in Dates(probe.dataframe) : d >= probe.start /\ d <= probe.end}

\* The grid instants a sequence of half-open gaps covers.
Covered(gaps, interval) ==
    {t \in 0..(2 * MaxProbeDay + 5) :
        /\ OnGrid(t, interval)
        /\ \E i \in 1..Len(gaps) : gaps[i][1] <= t /\ t < gaps[i][2]}

\* The grid instants of [start, end) at which the probed series has no bar.
Missing ==
    {t \in 0..MaxProbeDay :
        /\ OnGrid(t, probe.interval)
        /\ probe.start <= t /\ t < probe.end
        /\ t \notin Dates(probe.dataframe)}

\* C1: the union of the gaps returned by get_internal_missing_ranges is
\* exactly the set of grid instants of [start, end) at which the series has no
\* bar.  Violated: the trailing gap (last + step, end + step) reaches past end.
C1_GapsCoverExactlyMissing ==
    Detected => Covered(probe.gaps, probe.interval) = Missing

\* C2: once every returned gap is fetched from a provider with a bar at every
\* grid instant and merged, the detector returns no gaps for the same range.
\* Violated: a range with no retained row is refilled up to end - step only.
C2_NoGapsAfterRefill ==
    probe.pc = "refilled" => probe.regaps = <<>>

\* C3: every returned gap (gs, ge) has gs < ge, and two retained rows exactly
\* one step apart have no gap between them.
C3_GapsHavePositiveWidth ==
    Detected =>
        /\ \A i \in 1..Len(probe.gaps) : probe.gaps[i][1] < probe.gaps[i][2]
        /\ \A d \in Retained :
              d + INTERVAL_TO_TIMEDIFF[probe.interval] \in Retained =>
                  \A i \in 1..Len(probe.gaps) :
                      ~(d <= probe.gaps[i][1] /\
                        probe.gaps[i][2] <= d + INTERVAL_TO_TIMEDIFF[probe.interval])

\* C3's case: gaps were returned for a series that also holds two retained
\* rows exactly one step apart.
C3_Witness ==
    /\ Detected
    /\ probe.gaps # <<>>
    /\ \E d \in Retained : d + INTERVAL_TO_TIMEDIFF[probe.interval] \in Retained

\* --------------------------------------------------- claims: reconciler
Returned == call.outcome = "returned"

Requested(c) == {c.list_of_tickers[i] : i \in 1..Len(c.list_of_tickers)}

\* The keys of the rows a provider call handed back.
Delivered(f, interval) ==
    IF f.failed THEN {} ELSE KeySet(history(f.Ticker, f.start, f.end, interval, 0))

DeliveredBy(fetches, interval) ==
    UNION {Delivered(fetches[k], interval) : k \in 1..Len(fetches)}

\* The provider calls as (ticker, start, end), without their outcome.
Requests(fetches) ==
    {<<fetches[k].Ticker, fetches[k].start, fetches[k].end>> : k \in 1..Len(fetches)}

NoFailure(c) == \A k \in 1..Len(c.fetches) : ~c.fetches[k].failed

\* C4: the persisted dataset of an interval never holds two rows with the
\* same (Ticker, Date).
C4_NoDuplicateRows ==
    \A i \in Intervals : NoDuplicates(csv[i].rows)

\* C4's case: a call has merged a fetched chunk that overlaps rows already
\* cached, and has written the file.
C4_Witness ==
    /\ Returned /\ call.disk = "ok"
    /\ DeliveredBy(call.fetches, call.interval) \cap KeySet(call.before) # {}

\* A call that completed with no fault, against the provider that has a bar at
\* every grid instant.
Clean(c) == c.outcome = "returned" /\ c.disk = "ok" /\ NoFailure(c)

SameRequest(c, d) ==
    /\ c.list_of_tickers = d.list_of_tickers
    /\ c.start = d.start /\ c.end = d.end /\ c.interval = d.interval

\* The step from one clean call to the next clean call with the same tickers,
\* range and interval.
RepeatedCall ==
    /\ ncalls' = ncalls + 1
    /\ Clean(call) /\ Clean(call')
    /\ SameRequest(call, call')

\* C5: the second of two identical calls in a row issues no provider call.
\* Violated: the first call of an absent ticker stores the bars before end,
\* and the second then fetches the trailing gap (end, end + step).
C5_SecondCallFetchesNothing ==
    [][RepeatedCall => call'.fetches = <<>>]_vars

\* C6: the second of two identical calls in a row returns the rows of the
\* first and leaves the persisted dataset as the first left it.
C6_SecondCallSameOutput ==
    [][RepeatedCall =>
          /\ Keys(call'.printed) = Keys(call.printed)
          /\ Keys(csv'[call.interval].rows) = Keys(csv[call.interval].rows)]_vars

\* C7: the rows returned are sorted ascending by ticker and then by date.
\* Violated: when the file exists they are printed per ticker in the order
\* present tickers, then missing tickers, each group in request order.
C7_PrintedSorted ==
    Returned => IsSorted(call.printed)

\* C8: every returned row belongs to a requested ticker and has
\* start <= Date <= end.
C8_PrintedWithinRequest ==
    Returned =>
        \A k \in 1..Len(call.printed) :
            /\ call.printed[k].Ticker \in Requested(call)
            /\ call.start <= call.printed[k].Date
            /\ call.printed[k].Date <= call.end

\* C8's case: rows were returned while the dataset also holds a row of another
\* ticker and a row of a requested ticker outside the range.
C8_Witness ==
    /\ Returned /\ call.printed # <<>>
    /\ \E k \in 1..Len(csv[call.interval].rows) :
          csv[call.interval].rows[k].Ticker \notin Requested(call)
    /\ \E k \in 1..Len(csv[call.interval].rows) :
          /\ csv[call.interval].rows[k].Ticker \in Requested(call)
          /\ ~(call.start <= csv[call.interval].rows[k].Date
               /\ csv[call.interval].rows[k].Date <= call.end)

\* The requested tickers with no row in the dataset when the call began.
Absent(c) == {t \in Requested(c) : \A k \in 1..Len(c.before) : c.before[k].Ticker # t}

FetchesOf(c, t) == SelectSeq(c.fetches, LAMBDA f : f.Ticker = t)

Occurrences(c, t) == Cardinality({i \in 1..Len(c.list_of_tickers) : c.list_of_tickers[i] = t})

FaultFreeFetches(c) ==
    fetch_historical_data(c.list_of_tickers, c.start, c.end, c.interval, TRUE, {}, "ok").fetches

\* The ranges asked of the provider for ticker t, in call order.
RangesFor(fetches, t) ==
    LET of_t == SelectSeq(fetches, LAMBDA f : f.Ticker = t)
    IN  [k \in 1..Len(of_t) |-> <<of_t[k].start, of_t[k].end>>]

\* C10: a provider call that raises contributes zero rows and stops nothing:
\* every ticker still gets the provider calls of the fault-free run (a ticker
\* named twice whose own call raised is asked again on its second turn, so its
\* ranges are not compared), the rows of the calls that succeeded are merged
\* and persisted, and no cached row is lost.
C10_FailedFetchIsZeroRows ==
    [][(ncalls' = ncalls + 1 /\ call'.outcome = "returned") =>
          /\ \A t \in Requested(call') :
                \/ /\ Occurrences(call', t) > 1
                   /\ \E k \in 1..Len(call'.fetches) :
                         call'.fetches[k].Ticker = t /\ call'.fetches[k].failed
                \/ RangesFor(call'.fetches, t) = RangesFor(FaultFreeFetches(call'), t)
          /\ call'.disk = "ok" =>
                KeySet(csv'[call'.interval].rows) =
                    KeySet(csv[call'.interval].rows)
                        \cup DeliveredBy(call'.fetches, call'.interval)]_vars

\* C10's case: a provider call raised, a later one for another gap or ticker
\* succeeded and brought rows, the dataset held rows before, and the file was
\* written.
C10_Witness ==
    /\ Returned /\ call.disk = "ok" /\ call.before # <<>>
    /\ \E j, k \in 1..Len(call.fetches) :
          /\ j < k
          /\ call.fetches[j].failed
          /\ Delivered(call.fetches[k], call.interval) # {}

\* C11: when the interval's store exists and cannot be loaded, the call ends
\* with an error at its caller: no provider call is made, the store and every
\* other file stay as they were, the master reference is not replaced, and
\* nothing is printed from an empty dataset.
C11_LoadFailureAborts ==
    [][(ncalls' = ncalls + 1 /\ call'.disk = "unreadable") =>
          /\ call'.file_existed
          /\ call'.outcome = "UnboundLocalError"
          /\ call'.fetches = <<>>
          /\ call'.printed = <<>>
          /\ csv' = csv
          /\ MASTER_HISTORY' = MASTER_HISTORY]_vars

\* C11's case: a store holding rows could not be loaded, for a request naming
\* a ticker that an empty dataset would have fetched in full.
C11_Witness ==
    /\ call.disk = "unreadable" /\ call.file_existed
    /\ call.before # <<>>
    /\ call.outcome = "UnboundLocalError"
    /\ csv[call.interval].rows = call.before

\* C12: between calls the master reference holds exactly the rows of the
\* persisted daily store.
C12_MasterIsPersistedStore ==
    MASTER_HISTORY.rows = csv["1d"].rows

\* ------------------------------------------------ the alert evaluator
\* run_alerts.py: a tracker is constructed and percentage_change_alert is
\* called once, whatever the clock shows.
AlertInit ==
    /\ \E clock \in Clocks :
          /\ now = clock
          /\ nyse = Sessions(clock.today)
    /\ csv = [i \in Intervals |-> NoFile]
    /\ MASTER_HISTORY = NoFile
    /\ call = NoCall
    /\ ncalls = 0
    /\ probe = NoProbe
    /\ fresh = NoFresh
    /\ alert = NoAlert
    /\ menu = NoMenu
    /\ chart = NoChart

PercentageChangeAlert ==
    /\ alert.outcome = "none"
    /\ \E list_of_tickers \in TickerLists, alert_threshold \in Thresholds :
          \E quotes \in [1..Len(list_of_tickers) -> Quotes] :
             alert' = percentage_change_alert(list_of_tickers, alert_threshold, quotes)
    /\ UNCHANGED <<csv, MASTER_HISTORY, call, ncalls, probe, now, nyse, fresh, menu, chart>>

AlertNext == PercentageChangeAlert

AlertSpec == AlertInit /\ [][AlertNext]_vars

\* The evaluator is straight-line code with bounded loops and every provider
\* call returns or raises: a call that has begun runs to its end.
AlertLiveSpec == AlertSpec /\ WF_vars(PercentageChangeAlert)

\* ------------------------------------------------------- the fetch menu
\* The keys of INTERVAL_TO_TIMEDIFF (lines 44-57), which get_interval accepts.
MenuIntervals ==
    {"1m", "2m", "5m", "15m", "30m", "60m", "90m", "1d", "5d", "1wk", "1mo", "3mo"}

\* Lines 122 and 134.
seven_days_from_today == now.today - 7
sixty_days_from_today == now.today - 59

\* One pass of the loop of lines 120-146: TRUE when the request is refused and
\* the dates and the interval are asked again.
LookbackRejects(interval, parsed_start_date) ==
    IF interval = "1m"
    THEN parsed_start_date < seven_days_from_today
    ELSE IF interval \in {"2m", "5m", "15m", "30m", "60m", "90m"}
         THEN parsed_start_date < sixty_days_from_today
         ELSE FALSE

\* Option 1 is chosen on day MaxBack of a calendar that starts at day 0.
MenuInit ==
    /\ now = [today |-> MaxBack, eastern_time |-> market_close_time]
    /\ nyse = 0..MaxBack
    /\ csv = [i \in Intervals |-> NoFile]
    /\ MASTER_HISTORY = NoFile
    /\ call = NoCall
    /\ ncalls = 0
    /\ probe = NoProbe
    /\ fresh = NoFresh
    /\ alert = NoAlert
    /\ menu = [NoMenu EXCEPT !.pc = "prompt"]
    /\ chart = NoChart

\* The test of get_start_date (lines 1340-1343); day 0 stands for
\* lower_bound_date.
get_start_date(parsed_start_date) ==
    ~(parsed_start_date < 0) /\ ~(parsed_start_date > now.today)

\* The test of get_end_date (lines 1378-1381).
get_end_date(parsed_end_date, parsed_start_date) ==
    ~(parsed_end_date <= parsed_start_date) /\ ~(parsed_end_date > now.today + 1)

\* get_start_date, get_end_date and get_interval (lines 114-118, and again at
\* lines 125-129 and 137-141): each asks until its test accepts what was
\* entered; the dates entered are drawn around the accepted ones.
Prompt ==
    /\ menu.pc = "prompt"
    /\ menu.tries < MaxTries
    /\ \E parsed_start_date \in 0..(now.today + 1), interval \in MenuIntervals :
          \E end_date \in {parsed_start_date - 1, parsed_start_date, parsed_start_date + 1,
                           now.today + 1, now.today + 2} :
             /\ get_start_date(parsed_start_date)
             /\ get_end_date(end_date, parsed_start_date)
             /\ menu' = [menu EXCEPT !.pc = "entered", !.start = parsed_start_date,
                                  !.end = end_date, !.interval = interval,
                                  !.tries = menu.tries + 1]
    /\ UNCHANGED <<csv, MASTER_HISTORY, call, ncalls, probe, now, nyse, fresh, alert, chart>>

\* The test of lines 120-146 on what was entered: a refused request goes back
\* to the prompts, any other one is passed to fetch_historical_data (line 148).
CheckLookback ==
    /\ menu.pc = "entered"
    /\ menu' = IF LookbackRejects(menu.interval, menu.start)
               THEN [menu EXCEPT !.pc = "prompt"]
               ELSE [menu EXCEPT !.pc = "passed",
                                 !.passed = <<[start |-> menu.start, end |-> menu.end,
                                               interval |-> menu.interval]>>]
    /\ UNCHANGED <<csv, MASTER_HISTORY, call, ncalls, probe, now, nyse, fresh, alert, chart>>

MenuNext == Prompt \/ CheckLookback

MenuSpec == MenuInit /\ [][MenuNext]_vars

\* ------------------------------------------- the cumulative-returns transform
\* Column values are exact fractions [n, d] in lowest terms with d > 0; NaN is
\* the value with d = 0.  The rounding of binary floating point is left out.
RECURSIVE GCD(_, _)
GCD(a, b) == IF b = 0 THEN a ELSE GCD(b, a % b)

Abs(n) == IF n < 0 THEN 0 - n ELSE n

Frac(n, d) ==
    LET g == GCD(Abs(n), d)
    IN  [n |-> n \div g, d |-> d \div g]

NaN == [n |-> 0, d |-> 0]
IsNaN(x) == x.d = 0

Plus(x, y) == IF IsNaN(x) \/ IsNaN(y) THEN NaN ELSE Frac(x.n * y.d + y.n * x.d, x.d * y.d)
Times(x, y) == IF IsNaN(x) \/ IsNaN(y) THEN NaN ELSE Frac(x.n * y.n, x.d * y.d)

\* Series.pct_change(): NaN in the first row, then Close[i] / Close[i-1] - 1.
pct_change(Close) ==
    [i \in 1..Len(Close) |->
        IF i = 1 THEN NaN ELSE Frac(Close[i] - Close[i - 1], Close[i - 1])]

\* A fill with 0 for the value asked for: a slip that zeroes the first
\* multiplier.
fillna_zero(column, value) == [i \in 1..Len(column) |-> IF IsNaN(column[i]) THEN Frac(0, 1) ELSE column[i]]

\* Series.fillna(value)
fillna(column, value) ==
    [i \in 1..Len(column) |-> IF IsNaN(column[i]) THEN value ELSE column[i]]

\* Series.cumprod(): the running product.
RECURSIVE cumprod(_)
cumprod(column) ==
    IF column = <<>> THEN <<>>
    ELSE LET front == cumprod(SubSeq(column, 1, Len(column) - 1))
         IN  Append(front, IF front = <<>> THEN column[Len(column)]
                           ELSE Times(front[Len(front)], column[Len(column)]))

\* Lines 831-833: the columns "% daily change" and "Cumulative Returns" of the
\* window.
cumulative_returns(Close, investment_amount) ==
    LET daily_change == pct_change(Close)
        multipliers  == fillna([i \in 1..Len(Close) |-> Plus(Frac(1, 1), daily_change[i])],
                               Frac(1, 1))
        product      == cumprod(multipliers)
    IN  [daily_change |-> daily_change,
         cumulative   |-> [i \in 1..Len(Close) |->
                               Times(Frac(investment_amount, 1), product[i])]]

\* The closes of a window and the amounts invested that are tried.
ClosePrices == {20, 21, 22}
Investments == {1, 1000}

RECURSIVE Windows(_)
Windows(n) ==
    IF n = 0 THEN {<<>>}
    ELSE Windows(n - 1) \cup
         {Append(w, c) : w \in {v \in Windows(n - 1) : Len(v) = n - 1}, c \in ClosePrices}

\* The window get_requested_range_dataframe returned (line 829), of one row
\* at least, and the amount the menu read (lines 244-251: an integer >= 1).
ChartInit ==
    /\ csv = [i \in Intervals |-> NoFile]
    /\ MASTER_HISTORY = NoFile
    /\ call = NoCall
    /\ ncalls = 0
    /\ probe = NoProbe
    /\ now = [today |-> 0, eastern_time |-> market_close_time]
    /\ nyse = {0}
    /\ fresh = NoFresh
    /\ alert = NoAlert
    /\ menu = NoMenu
    /\ \E Close \in Windows(MaxWindow) \ {<<>>}, investment_amount \in Investments :
          chart = [NoChart EXCEPT !.pc = "window", !.Close = Close,
                                  !.investment_amount = investment_amount]

\* generate_cumulative_returns_chart from line 831 on; the plot shows the
\* column and changes no state.
GenerateCumulativeReturnsChart ==
    /\ chart.pc = "window"
    /\ LET columns == cumulative_returns(chart.Close, chart.investment_amount)
       IN  chart' = [chart EXCEPT !.pc = "plotted",
                                  !.daily_change = columns.daily_change,
                                  !.cumulative = columns.cumulative]
    /\ UNCHANGED <<csv, MASTER_HISTORY, call, ncalls, probe, now, nyse, fresh, alert, menu>>

ChartNext == GenerateCumulativeReturnsChart

ChartSpec == ChartInit /\ [][ChartNext]_vars

\* --------------------------------------------- claims: freshness checker
\* The last get_requested_range_dataframe call found the ticker cached and
\* compared its tail with the expected session dates.
Compared == fresh.outcome # "none" /\ fresh.cached /\ fresh.list_of_valid_trading_days # <<>>

\* C13: when the ticker is cached and its last N dates equal the last N
\* expected session dates of the market state, the call makes no reconcile
\* call and no provider call: the store, the master and the record of the last
\* reconcile call stay as they were.
C13_FreshTailNoFetch ==
    [][(/\ fresh'.outcome # "none" /\ fresh'.cached
        /\ fresh'.list_of_actual_trading_days # <<>>
        /\ fresh'.list_of_valid_trading_days = fresh'.list_of_actual_trading_days) =>
          /\ fresh'.outcome = "returned"
          /\ fresh'.reconciles = <<>>
          /\ ncalls' = ncalls /\ call' = call
          /\ csv' = csv /\ MASTER_HISTORY' = MASTER_HISTORY]_vars

\* C13's case: a cached ticker with at least two rows compared and fresh.
C13_Witness ==
    /\ Compared /\ fresh.days_range >= 2
    /\ fresh.list_of_valid_trading_days = fresh.list_of_actual_trading_days
    /\ fresh.reconciles = <<>>

\* The session dates the call expected: the days_range last entries of the
\* valid_trading_days of its market state.
Expected(f) == {f.valid_trading_days[Len(f.valid_trading_days) + 1 - i] : i \in 1..f.days_range}

\* The call got as far as its comparison (cached ticker) or its reconcile call
\* (absent ticker).
Decided(f) == f.outcome \in {"returned", "UnboundLocalError"}

\* The cached tail differs from the expected dates, or the ticker is absent.
Stale(f) ==
    \/ ~f.cached
    \/ f.list_of_valid_trading_days # f.list_of_actual_trading_days

OldestExpected(f) == CHOOSE d \in Expected(f) : \A e \in Expected(f) : d <= e
NewestExpected(f) == CHOOSE d \in Expected(f) : \A e \in Expected(f) : e <= d

\* C15: in every market state the reconcile call starts at the oldest expected
\* session date and ends exactly one day after the newest expected one.
C15_ReconcileBounds ==
    [][(Decided(fresh') /\ Len(fresh'.reconciles) = 1) =>
          /\ fresh'.reconciles[1].start = OldestExpected(fresh')
          /\ fresh'.reconciles[1].end = NewestExpected(fresh') + 1]_vars

\* The newest entry of the valid_trading_days the call worked with.
NewestValid(f) == f.valid_trading_days[Len(f.valid_trading_days)]

\* The most recent session strictly before today.
SessionBeforeToday == CHOOSE d \in nyse : d < now.today /\ \A e \in nyse : e < now.today => e <= d

\* C16: every (today, exchange time) falls in exactly one of post-close (a
\* session day at or after the close), pre-close (a session day before the
\* close) and non-session (no session today); the newest expected session is
\* today in post-close and the most recent session strictly before today in
\* the two other states.
C16_ThreeStates ==
    (fresh.outcome # "none" /\ fresh.valid_trading_days # <<>>) =>
        /\ fresh.state \in {"post-close", "pre-close", "non-session"}
        /\ fresh.state = "post-close" <=>
               (now.today \in nyse /\ now.eastern_time >= market_close_time)
        /\ fresh.state = "pre-close" <=>
               (now.today \in nyse /\ now.eastern_time < market_close_time)
        /\ fresh.state = "non-session" <=> now.today \notin nyse
        /\ fresh.state = "post-close" => NewestValid(fresh) = now.today
        /\ fresh.state # "post-close" => NewestValid(fresh) = SessionBeforeToday

\* C16's case: a call before the close on a session day that follows a day
\* without session.
C16_Witness ==
    /\ Decided(fresh) /\ fresh.state = "pre-close"
    /\ now.today - 1 \notin nyse
    /\ NewestValid(fresh) < now.today - 1

\* The rows the master holds for the ticker of the last call, at its return.
Available == Len(ticker_specific_dataframe(MASTER_HISTORY.rows, fresh.ticker))

\* C17: a call for a ticker with fewer rows than the requested N (a ticker
\* with no cached row included) does not fail, and returns the available row
\* count as its days_range.
C17_ClampedToAvailable ==
    fresh.outcome # "none" =>
        /\ fresh.outcome \notin {"IndexError", "TypeError"}
        /\ (fresh.outcome = "returned" /\ Available < fresh.requested) =>
               fresh.days_range = Available

\* -------------------------------------------------- claims: alert evaluator
\* The i-th ticker asked gave two closes.
Usable(i) == ~alert.asked[i].quote.raised /\ Len(alert.asked[i].quote.Close) >= 2

\* The tickers asked that gave two closes, in the order asked.
UsableAsked == SelectSeq(alert.asked, LAMBDA a : ~a.quote.raised /\ Len(a.quote.Close) >= 2)

\* 100 * (last - prev) and threshold * prev of an asked ticker: the change in
\* percent exceeds the threshold iff the first exceeds the second.
Change100(a) == (a.quote.Close[Len(a.quote.Close)] - a.quote.Close[Len(a.quote.Close) - 1]) * 100
Scaled(a) == alert.alert_threshold * a.quote.Close[Len(a.quote.Close) - 1]

\* C18: after the close every ticker with two closes gets exactly one line, in
\* the order asked: "rose" iff its change exceeds the threshold, "dropped" iff
\* it is below minus the threshold, "neutral" otherwise (a change equal to
\* plus or minus the threshold included), and never two of them.
C18_OneLinePerTicker ==
    (alert.shape = "alerts" /\ UsableAsked # <<>>) =>
        /\ Len(alert.strings) = Len(UsableAsked)
        /\ \A k \in 1..Len(UsableAsked) :
              LET a == UsableAsked[k]
                  line == alert.strings[k]
              IN  /\ line.ticker = a.ticker
                  /\ line.kind \in {"rose", "dropped", "neutral"}
                  /\ line.kind = "rose" <=> Change100(a) > Scaled(a)
                  /\ line.kind = "dropped" <=> Change100(a) < 0 - Scaled(a)
                  /\ (Change100(a) = Scaled(a) \/ Change100(a) = 0 - Scaled(a)) =>
                        line.kind = "neutral"
                  /\ ~(Change100(a) > Scaled(a) /\ Change100(a) < 0 - Scaled(a))

\* C18's case: a drop equal to minus the threshold next to a rise beyond the
\* threshold.
C18_Witness ==
    /\ alert.shape = "alerts" /\ Len(UsableAsked) = 2
    /\ alert.alert_threshold > 0
    /\ Change100(UsableAsked[1]) = 0 - Scaled(UsableAsked[1])
    /\ alert.strings[1].kind = "neutral"
    /\ alert.strings[2].kind = "rose"

\* C19: every clock selects exactly one of four report shapes: the per-ticker
\* evaluation iff today is a session day and the time is at or after the
\* close; otherwise one single line ("not yet open" before the open, "open"
\* from the open up to the close, "closed" on a day without session) and no
\* ticker is asked of the provider.
C19_FourShapes ==
    alert.outcome # "none" =>
        /\ alert.outcome = "returned"
        /\ alert.shape \in {"alerts", "not yet open", "open", "closed"}
        /\ alert.shape = "alerts" <=>
               (now.today \in nyse /\ now.eastern_time >= market_close_time)
        /\ alert.shape = "not yet open" <=>
               (now.today \in nyse /\ now.eastern_time < market_open_time)
        /\ alert.shape = "open" <=>
               (/\ now.today \in nyse
                /\ now.eastern_time >= market_open_time
                /\ now.eastern_time < market_close_time)
        /\ alert.shape = "closed" <=> now.today \notin nyse
        /\ alert.shape = "alerts" => Len(alert.asked) = Len(alert.list_of_tickers)
        /\ alert.shape # "alerts" =>
               /\ alert.asked = <<>>
               /\ alert.strings = <<Line(alert.shape, "")>>

\* C19's case: two tickers configured, the clock one minute before the close
\* of a session day: one line, no ticker asked.
C19_Witness ==
    /\ alert.outcome = "returned" /\ Len(alert.list_of_tickers) = 2
    /\ now.today \in nyse /\ now.eastern_time = market_close_time - 1
    /\ alert.shape = "open" /\ alert.asked = <<>>

\* C20: after the close every ticker is asked; a ticker whose provider call
\* raises or that has fewer than two closes gets no line and the tickers after
\* it still get theirs; when no ticker gave a comparison the report holds the
\* single line "No valid alerts generated today."; the report is never empty.
C20_SkippedNotFatal ==
    alert.shape = "alerts" =>
        /\ alert.outcome = "returned"
        /\ Len(alert.asked) = Len(alert.list_of_tickers)
        /\ alert.strings # <<>>
        /\ UsableAsked = <<>> => alert.strings = <<Line("no valid alerts", "")>>
        /\ UsableAsked # <<>> =>
               /\ Len(alert.strings) = Len(UsableAsked)
               /\ \A k \in 1..Len(UsableAsked) :
                      alert.strings[k].ticker = UsableAsked[k].ticker
        /\ \A i \in 1..Len(alert.asked) :
               Usable(i) => \E k \in 1..Len(alert.strings) :
                               alert.strings[k].ticker = alert.asked[i].ticker

\* C20's case: the provider call of the first ticker raised and the second
\* ticker, another symbol, was evaluated.
C20_Witness ==
    /\ alert.shape = "alerts" /\ Len(alert.asked) = 2
    /\ alert.asked[1].quote.raised
    /\ alert.asked[1].ticker # alert.asked[2].ticker
    /\ Usable(2)
    /\ Len(alert.strings) = 1
    /\ alert.strings[1].ticker = alert.asked[2].ticker

\* ------------------------------------------------------ claims: fetch menu
\* The lookback ceiling of an interval in days; 0 - 1 stands for no ceiling.
Ceiling(interval) ==
    IF interval = "1m" THEN 7
    ELSE IF interval \in {"2m", "5m", "15m", "30m", "60m", "90m"} THEN 60
         ELSE 0 - 1

WithinCeiling(interval, start) ==
    Ceiling(interval) < 0 \/ now.today - start <= Ceiling(interval)

\* C21: a request is passed to fetch_historical_data iff its start date is
\* within the ceiling of its interval (7 days before today for 1m, 60 days for
\* the other intraday intervals, none for daily or coarser ones); a refused
\* request is not passed.
C21_LookbackCeiling ==
    [][menu.pc = "entered" =>
          /\ menu'.pc = "passed" <=> WithinCeiling(menu.interval, menu.start)
          /\ menu'.pc # "passed" => menu'.passed = <<>>]_vars

\* ------------------------------------------- claims: gap detector, calendar
\* Day 0 is a Monday: days 5 and 6 of a week have no session.
Weekend(d) == d % 7 \in {5, 6}

\* A returned gap that holds the days of a weekend and nothing else, between a
\* retained Friday bar and a retained Monday bar.
WeekendGap(gap) ==
    /\ gap[1] - 1 \in Retained /\ gap[2] \in Retained
    /\ ~Weekend(gap[1] - 1) /\ ~Weekend(gap[2])
    /\ \A d \in gap[1]..(gap[2] - 1) : Weekend(d)

\* C22: on the daily interval, for a series with a bar on the Friday and on
\* the Monday around a weekend and a range covering both, the detector does
\* not report the weekend as a gap.
C22_WeekendNotAGap ==
    (Detected /\ probe.interval = "1d") =>
        \A i \in 1..Len(probe.gaps) : ~WeekendGap(probe.gaps[i])

\* ------------------------------------------ claims: reconciler, what is fetched
\* The dates of the bars the dataset held for ticker t before the call.
CachedDates(c, t) == {c.before[i].Date : i \in {j \in 1..Len(c.before) : c.before[j].Ticker = t}}

\* C23: for a ticker already in the dataset, no range asked of the provider
\* contains the date of a bar that was cached for that ticker.
C23_FetchOnlyMissing ==
    Returned =>
        \A k \in 1..Len(call.fetches) :
            \A d \in CachedDates(call, call.fetches[k].Ticker) :
                ~(call.fetches[k].start <= d /\ d < call.fetches[k].end)

\* C24: the gaps returned by get_internal_missing_ranges are ascending and
\* pairwise non-overlapping: each gap ends no later than the next one starts.
C24_GapsAscendingDisjoint ==
    Detected =>
        \A i \in 1..(Len(probe.gaps) - 1) :
            /\ probe.gaps[i][1] <= probe.gaps[i + 1][1]
            /\ probe.gaps[i][2] <= probe.gaps[i + 1][1]

\* C24's case: a leading gap, a gap between two retained rows and a trailing
\* gap were returned together.
C24_Witness ==
    /\ Detected
    /\ Len(probe.gaps) >= 3
    /\ probe.gaps[1][1] = probe.start
    /\ probe.gaps[Len(probe.gaps)][2] = probe.end + INTERVAL_TO_TIMEDIFF[probe.interval]

\* Two provider ranges [s1, e1) and [s2, e2) share at least one instant.
Overlap(f, g) == f.start < g.end /\ g.start < f.end

\* C25: within one call, the ranges fetched for one present ticker (internal
\* gaps plus the lower and upper boundary extensions) are pairwise
\* non-overlapping.  Stated for a ticker named once in list_of_tickers.
C25_FetchedRangesDisjoint ==
    Returned =>
        \A t \in Requested(call) \ Absent(call) :
            Occurrences(call, t) = 1 =>
                \A i, j \in 1..Len(FetchesOf(call, t)) :
                    i < j => ~Overlap(FetchesOf(call, t)[i], FetchesOf(call, t)[j])

\* --------------------------------------- claims: reconciler, what is written
\* C26: when a fetched row has the (ticker, date) of a row already in the
\* dataset, de-duplication keeps the newly fetched row: the persisted row of
\* that key is the one this call fetched.
C26_DedupKeepsFetchedRow ==
    (Returned /\ call.disk = "ok") =>
        \A k \in 1..Len(csv[call.interval].rows) :
            <<csv[call.interval].rows[k].Ticker, csv[call.interval].rows[k].Date>>
                \in DeliveredBy(call.fetches, call.interval) \cap KeySet(call.before)
            => csv[call.interval].rows[k].Fetched = ncalls

\* The store of every interval but the one called on is left as it was.
OtherStoresUnchanged ==
    \A i \in Intervals \ {call'.interval} : csv'[i] = csv[i]

\* A call on an interval other than "1d" leaves the master reference and the
\* daily store as they were.
DailyUntouched ==
    call'.interval # "1d" => MASTER_HISTORY' = MASTER_HISTORY /\ csv'["1d"] = csv["1d"]

\* C27 as stated: a call replaces the master reference iff its interval is
\* "1d"; a call on another interval leaves the master and the daily store
\* unchanged and writes only its own store.  Violated: a "1d" call whose store
\* cannot be loaded aborts before the master is replaced.
C27_MasterReplacedIffDaily ==
    [][ncalls' = ncalls + 1 =>
          /\ call'.master_assigned <=> call'.interval = "1d"
          /\ DailyUntouched
          /\ OtherStoresUnchanged]_vars

\* C27 amended: a call that completes replaces the master reference iff its
\* interval is "1d", and then with the dataset it reconciled; an aborted call
\* does not replace it; a call on another interval leaves the master and the
\* daily store unchanged; no call writes a store other than its interval's.
C27_CompletedCallReplacesMasterIffDaily ==
    [][ncalls' = ncalls + 1 =>
          /\ call'.master_assigned <=>
                (call'.interval = "1d" /\ call'.outcome = "returned")
          /\ call'.master_assigned =>
                /\ MASTER_HISTORY'.exists
                /\ KeySet(MASTER_HISTORY'.rows) =
                      KeySet(call'.before) \cup DeliveredBy(call'.fetches, "1d")
          /\ ~call'.master_assigned => MASTER_HISTORY' = MASTER_HISTORY
          /\ DailyUntouched
          /\ OtherStoresUnchanged]_vars

\* C27's case: a call on an interval other than "1d" wrote rows to its own
\* store while the master reference held the daily dataset, and did not
\* replace it.
C27_Witness ==
    /\ Returned /\ call.interval # "1d" /\ call.disk = "ok"
    /\ csv[call.interval].rows # <<>>
    /\ MASTER_HISTORY.rows # <<>>
    /\ ~call.master_assigned

\* C28: after every call that writes the store, the persisted dataset is
\* sorted ascending by ticker and, within a ticker, by date.
C28_PersistedSorted ==
    (Returned /\ call.disk = "ok") => IsSorted(csv[call.interval].rows)

\* C28's case: the written dataset holds a row this call fetched ahead of a
\* row that was cached before it, and rows of two tickers.
C28_Witness ==
    /\ Returned /\ call.disk = "ok"
    /\ \E i, j \in 1..Len(csv[call.interval].rows) :
          /\ i < j
          /\ csv[call.interval].rows[i].Fetched = ncalls
          /\ csv[call.interval].rows[j].Fetched < ncalls
    /\ \E i, j \in 1..Len(csv[call.interval].rows) :
          csv[call.interval].rows[i].Ticker # csv[call.interval].rows[j].Ticker

\* ------------------------------------------------ claims: the two classifiers
\* C29: for the same (today, exchange time) the freshness check is post-close
\* iff the alert evaluator evaluates tickers, pre-close iff the evaluator
\* reports "not yet open" or "open, wait for close", and non-session iff it
\* reports "market closed".
C29_ClassificationsAgree ==
    alert.outcome # "none" =>
        /\ MarketState = "post-close" <=> alert.shape = "alerts"
        /\ MarketState = "pre-close" <=> alert.shape \in {"not yet open", "open"}
        /\ MarketState = "non-session" <=> alert.shape = "closed"

\* C29's case: the evaluator ran on a session day at the open, which it
\* reports as open and the freshness check takes as pre-close.
C29_Witness ==
    /\ alert.outcome # "none"
    /\ now.today \in nyse /\ now.eastern_time = market_open_time
    /\ alert.shape = "open" /\ MarketState = "pre-close"

\* ------------------------------------------------ claims: cumulative returns
\* x = y * p / q for fractions x, y and positive integers p, q.
IsScaled(x, y, p, q) ==
    ~IsNaN(x) /\ ~IsNaN(y) /\ x.n * y.d * q = y.n * p * x.d

\* C30: the first row of the window has the value of the starting capital and
\* every later row the previous row's value times close[i]/close[i-1]; over
\* fractional changes [undefined, +0.05] with start 1000 the values are
\* [1000, 1050].
C30_CumulativeReturns ==
    chart.pc = "plotted" =>
        /\ Len(chart.cumulative) = Len(chart.Close)
        /\ chart.cumulative[1] = Frac(chart.investment_amount, 1)
        /\ \A i \in 2..Len(chart.Close) :
              IsScaled(chart.cumulative[i], chart.cumulative[i - 1],
                       chart.Close[i], chart.Close[i - 1])
        /\ (chart.daily_change = <<NaN, Frac(5, 100)>> /\ chart.investment_amount = 1000)
              => chart.cumulative = <<Frac(1000, 1), Frac(1050, 1)>>

\* C30's case: a window of two closes 5% apart was transformed with 1000
\* invested.
C30_Witness ==
    /\ chart.pc = "plotted"
    /\ chart.investment_amount = 1000
    /\ chart.daily_change = <<NaN, Frac(5, 100)>>
    /\ chart.cumulative = <<Frac(1000, 1), Frac(1050, 1)>>

\* ------------------------------------------ claims: reconciler, what is kept
\* C31: the cache only grows: every (ticker, date) key the persisted dataset
\* of the interval held before a call is still in it after the call, whatever
\* fetches fail and whether or not the store can be read or written.
C31_CacheOnlyGrows ==
    [][ncalls' = ncalls + 1 =>
          KeySet(csv[call'.interval].rows) \subseteq KeySet(csv'[call'.interval].rows)]_vars

\* C31's case: a call with a provider call that raised wrote the store, which
\* held rows outside the requested range before.
C31_Witness ==
    /\ Returned /\ call.disk = "ok" /\ ~NoFailure(call)
    /\ \E k \in 1..Len(call.before) :
          call.before[k].Date < call.start \/ call.before[k].Date > call.end
    /\ KeySet(csv[call.interval].rows) # KeySet(call.before)

\* The rows of ticker t in a dataframe, in row order.
RowsOf(df, t) == SelectSeq(df, LAMBDA r : r.Ticker = t)

\* C32: a call for the tickers T leaves the rows of every ticker outside T as
\* they were in the persisted dataset (none added, removed or altered) and
\* issues no provider call for a ticker outside T.
C32_OtherTickersUntouched ==
    [][ncalls' = ncalls + 1 =>
          \A t \in Tickers \ Requested(call') :
              /\ RowsOf(csv'[call'.interval].rows, t) = RowsOf(csv[call'.interval].rows, t)
              /\ FetchesOf(call', t) = <<>>]_vars

\* C32's case: a call that fetched rows and wrote the store did not name a
\* ticker whose rows the store holds.
C32_Witness ==
    /\ Returned /\ call.disk = "ok"
    /\ DeliveredBy(call.fetches, call.interval) # {}
    /\ \E t \in Tickers \ Requested(call) : RowsOf(csv[call.interval].rows, t) # <<>>

\* C33: every row a call adds to the persisted dataset has a date d with
\* start <= d < end of the requested range (the provider returns only bars
\* inside the half-open range it is asked for).
C33_AddedRowsInRange ==
    [][ncalls' = ncalls + 1 =>
          \A key \in KeySet(csv'[call'.interval].rows) \ KeySet(csv[call'.interval].rows) :
              call'.start <= key[2] /\ key[2] < call'.end]_vars

\* ------------------------------------------ claims: the window handed back
\* C34: in the pre-close state the window returned never contains a bar dated
\* today, also when the provider already serves a bar for today and a
\* reconcile was triggered.  Stated for a dataset that held no bar of today
\* when the call began.
C34_PreCloseWindowExcludesToday ==
    [][(/\ fresh'.outcome = "returned" /\ fresh'.state = "pre-close"
        /\ \A k \in 1..Len(MASTER_HISTORY.rows) : MASTER_HISTORY.rows[k].Date # now.today)
       => \A i \in 1..Len(fresh'.window) : fresh'.window[i].Date # now.today]_vars

\* C35: the window returned has exactly as many rows as the days_range
\* returned with it, whether the ticker was cached or absent and whether or
\* not the reconcile call fetched data.
C35_WindowHasDaysRangeRows ==
    fresh.outcome = "returned" => Len(fresh.window) = fresh.days_range

\* C36: whenever at least 2 days are requested, as the menu of
\* analyse_stock_data does, the window returned has at least 2 rows, also for
\* a ticker with a single cached row.  Stated for a cached ticker.
C36_WindowHasTwoRows ==
    (fresh.outcome = "returned" /\ fresh.cached /\ fresh.requested >= 2) =>
        Len(fresh.window) >= 2

\* C37: for every requested N up to MAX_LOOKBACK_DAYS, the session calendar
\* built over the last MAX_LOOKBACK_DAYS calendar days holds at least N
\* (clamped) session dates, so the expected-date list is built without
\* indexing outside the calendar.
C37_CalendarHoldsNSessions ==
    (fresh.outcome \notin {"none", "TypeError"} /\ fresh.requested <= MAX_LOOKBACK_DAYS) =>
        /\ fresh.days_range <= Len(fresh.valid_trading_days)
        /\ fresh.outcome # "IndexError"

OneReport ==
    /\ alert.outcome = "returned"
    /\ Len(alert.emails) = 1
    /\ alert.emails[1].body # <<>>

\* C39: every percentage_change_alert call ends by handing exactly one report
\* with a defined, non-empty body to email_alerts, in each market state and
\* whatever the per-ticker provider calls return.
C39_OneReportPerCall ==
    /\ [](alert.outcome # "none" => OneReport)
    /\ (alert.outcome = "none") ~> OneReport

\* C39's case: after the close every provider call raised, and the one report
\* handed over holds the single line that says so.
C39_Witness ==
    /\ OneReport /\ alert.shape = "alerts"
    /\ \A i \in 1..Len(alert.asked) : alert.asked[i].quote.raised
    /\ alert.emails[1].body = <<Line("no valid alerts", "")>>

====
